---- MODULE Spec2Model ----
(***************************************************************************)
(* Model of extract_events.py: the pipeline                                *)
(*   load_csv -> group_events -> sort -> to_json                           *)
(* run by main() on one CSV timetable.                                     *)
(*                                                                         *)
(* A Python str is modelled as a sequence of one-character strings, so     *)
(* that trimming, splitting, regular-expression matching and comparison    *)
(* are computed character by character as the interpreter computes them.   *)
(* Input text is drawn from an alphabet without the CSV quote character,   *)
(* without carriage returns and within ASCII; every line read by           *)
(* readlines() ends with "\n".                                             *)
(***************************************************************************)
EXTENDS Integers, Sequences, FiniteSets, TLC

VARIABLES inputFile, pc, events, merged, output, stdout, stderr, written,
          exitStatus

vars == <<inputFile, pc, events, merged, output, stdout, stderr, written,
          exitStatus>>

(***************************************************************************)
(* Characters                                                              *)
(***************************************************************************)
\* str.strip()/lstrip()/split() and the regex class \s (ASCII part)
Whitespace == {" ", "\t", "\n", "\r", "\f"}

UpperCase == <<"A","B","C","D","E","F","G","H","I","J","K","L","M","N","O","P","Q","R","S","T","U","V","W","X","Y","Z">>

LowerCase == <<"a","b","c","d","e","f","g","h","i","j","k","l","m","n","o","p","q","r","s","t","u","v","w","x","y","z">>

Digits == <<"0","1","2","3","4","5","6","7","8","9">>

Range(f) == {f[i] : i \in DOMAIN f}

\* str.lower() and re.IGNORECASE folding, per character
ToLower == [c \in Range(UpperCase) |->
              LowerCase[CHOOSE i \in DOMAIN UpperCase : UpperCase[i] = c]]

Lower(c) == IF c \in DOMAIN ToLower THEN ToLower[c] ELSE c

LowerStr(s) == [i \in 1..Len(s) |-> Lower(s[i])]

\* the regex class \w (ASCII part)
WordChars == Range(UpperCase) \cup Range(LowerCase) \cup Range(Digits) \cup {"_"}

\* the characters in code-point order: Python compares str by code point
CodePoints == <<"\t", "\n", "\f", "\r", " ", "&", "(", ")", ",", "-", "/">>
              \o Digits \o <<":">> \o UpperCase \o <<"_">> \o LowerCase

Ord == [c \in Range(CodePoints) |->
          CHOOSE i \in DOMAIN CodePoints : CodePoints[i] = c]

(***************************************************************************)
(* str methods                                                             *)
(***************************************************************************)
RECURSIVE FirstNonSpace(_, _)
\* the first index >= i of s holding no whitespace, Len(s)+1 if none
FirstNonSpace(s, i) ==
  IF i > Len(s) \/ s[i] \notin Whitespace THEN i ELSE FirstNonSpace(s, i + 1)

RECURSIVE LastNonSpace(_, _)
\* the last index <= i of s holding no whitespace, 0 if none
LastNonSpace(s, i) ==
  IF i < 1 \/ s[i] \notin Whitespace THEN i ELSE LastNonSpace(s, i - 1)

RECURSIVE FirstSpace(_, _)
FirstSpace(s, i) ==
  IF i > Len(s) \/ s[i] \in Whitespace THEN i ELSE FirstSpace(s, i + 1)

LStrip(s) == SubSeq(s, FirstNonSpace(s, 1), Len(s))

Strip(s) == SubSeq(s, FirstNonSpace(s, 1), LastNonSpace(s, Len(s)))

StartsWithAt(s, i, p) ==
  /\ i >= 1
  /\ i + Len(p) - 1 <= Len(s)
  /\ SubSeq(s, i, i + Len(p) - 1) = p

StartsWith(s, p) == StartsWithAt(s, 1, p)

\* p in s
Contains(s, p) == \E i \in 1..(Len(s) - Len(p) + 1) : StartsWithAt(s, i, p)

RECURSIVE IndexOf(_, _, _)
\* the first index >= i of s holding c, 0 if none
IndexOf(s, c, i) ==
  IF i > Len(s) THEN 0 ELSE IF s[i] = c THEN i ELSE IndexOf(s, c, i + 1)

RECURSIVE SplitChar(_, _)
\* s.split(c) for a one-character separator: empty pieces are kept
SplitChar(s, c) ==
  LET i == IndexOf(s, c, 1)
  IN  IF i = 0 THEN <<s>>
      ELSE <<SubSeq(s, 1, i - 1)>> \o SplitChar(SubSeq(s, i + 1, Len(s)), c)

RECURSIVE SplitWhitespace(_)
\* s.split(): runs of whitespace separate, no empty pieces
SplitWhitespace(s) ==
  LET a == FirstNonSpace(s, 1)
  IN  IF a > Len(s) THEN <<>>
      ELSE LET b == FirstSpace(s, a)
           IN  <<SubSeq(s, a, b - 1)>> \o SplitWhitespace(SubSeq(s, b, Len(s)))

RECURSIVE StrCmp(_, _, _)
\* comparison of two str from index i on: -1, 0 or 1
StrCmp(a, b, i) ==
  IF i > Len(a) THEN (IF i > Len(b) THEN 0 ELSE 0 - 1)
  ELSE IF i > Len(b) THEN 1
  ELSE IF a[i] = b[i] THEN StrCmp(a, b, i + 1)
  ELSE IF Ord[a[i]] < Ord[b[i]] THEN 0 - 1 ELSE 1

(***************************************************************************)
(* parse_datetime, clean_name, detect_mode                                 *)
(***************************************************************************)
parse_datetime(dt_str) ==
  IF dt_str = <<>> \/ Strip(dt_str) = <<>> THEN <<>>
  ELSE LET parts == SplitWhitespace(Strip(dt_str))
       IN  IF Len(parts) # 2 THEN <<>>
           ELSE LET date_part == SplitChar(parts[1], "/")
                    time_part == parts[2]
                IN  IF Len(date_part) # 3 THEN <<>>
                    ELSE date_part[1] \o <<"-">> \o date_part[2] \o <<"-">>
                         \o date_part[3] \o <<"T">> \o time_part

\* the alternatives of SUFFIX_PATTERN, folded to lower case (re.IGNORECASE)
SUFFIX_PATTERN == <<<<"a","/","v">>, <<"(","l","i","v","e",")">>>>

\* SUFFIX_PATTERN.sub("", name): "$" matches at the end and before a final "\n"
SuffixSub(name) ==
  LET n == Len(name)
      e == IF n > 0 /\ name[n] = "\n" THEN n - 1 ELSE n
      hit == {a \in DOMAIN SUFFIX_PATTERN :
                LET k == e - Len(SUFFIX_PATTERN[a])
                IN  /\ k >= 1
                    /\ name[k] \in Whitespace
                    /\ LowerStr(SubSeq(name, k + 1, e)) = SUFFIX_PATTERN[a]}
  IN  IF hit = {} THEN name
      ELSE LET a == CHOOSE x \in hit : TRUE
               k == e - Len(SUFFIX_PATTERN[a])
           IN  SubSeq(name, 1, LastNonSpace(name, k)) \o SubSeq(name, e + 1, n)

clean_name(name) == Strip(SuffixSub(name))

\* the alternatives of MODE_PATTERN, case-sensitive
MODE_PATTERN == <<<<"B","2","B">>, <<"B","3","B">>, <<"F","2","F">>, <<"V","S">>>>

\* \b between s[p] and s[p+1] (p = 0: the start, p = Len(s): the end)
WordBoundary(s, p) ==
  (p >= 1 /\ s[p] \in WordChars) # (p < Len(s) /\ s[p + 1] \in WordChars)

\* mutant of ModeAt: the pattern without its two \b
ModeAt_NoBoundary(s, i) ==
  {a \in DOMAIN MODE_PATTERN : StartsWithAt(s, i, MODE_PATTERN[a])}

\* the alternatives of MODE_PATTERN that match at i
ModeAt(s, i) ==
  {a \in DOMAIN MODE_PATTERN :
     /\ StartsWithAt(s, i, MODE_PATTERN[a])
     /\ WordBoundary(s, i - 1)
     /\ WordBoundary(s, i + Len(MODE_PATTERN[a]) - 1)}

RECURSIVE ModeSearch(_, _)
\* MODE_PATTERN.search from index i: the leftmost match's group 1, or ""
ModeSearch(s, i) ==
  IF i > Len(s) THEN <<>>
  ELSE IF ModeAt(s, i) # {}
       THEN MODE_PATTERN[CHOOSE a \in ModeAt(s, i) :
                           \A b \in ModeAt(s, i) : a <= b]
       ELSE ModeSearch(s, i + 1)

detect_mode(name) == ModeSearch(name, 1)

(***************************************************************************)
(* load_csv                                                                *)
(***************************************************************************)
\* lines 55-61: a leading "//" and the blanks after it are removed
Uncomment(line) ==
  LET stripped == LStrip(line)
  IN  IF StartsWith(stripped, <<"/","/">>)
      THEN LStrip(SubSeq(stripped, 3, Len(stripped)))
      ELSE line

Processed(raw_lines) == [i \in 1..Len(raw_lines) |-> Uncomment(raw_lines[i])]

\* lines 65-70
IsHeader(line) ==
  /\ StartsWith(Strip(line), <<"S","t","a","r","t",",">>)
  /\ Contains(line, <<"E","n","d">>)
  /\ Contains(line, <<"N","a","m","e">>)
  /\ Contains(line, <<"L","o","c","a","t","i","o","n">>)

RECURSIVE HeaderSearch(_, _)
HeaderSearch(processed, idx) ==
  IF idx > Len(processed) THEN 0
  ELSE IF IsHeader(processed[idx]) THEN idx
  ELSE HeaderSearch(processed, idx + 1)

\* lines 63-72: the index of the header line, 0 for None
HeaderIdx(processed) == HeaderSearch(processed, 1)

\* csv.reader on one line without quotes: the terminator is dropped, an
\* empty line is the empty row, otherwise the fields are the comma pieces
CsvRow(line) ==
  LET n == Len(line)
      body == IF n > 0 /\ line[n] = "\n" THEN SubSeq(line, 1, n - 1) ELSE line
  IN  IF body = <<>> THEN <<>> ELSE SplitChar(body, ",")

\* the value None of a field that csv.DictReader filled with restval
None == <<"None">>

\* row.get(key, "") on the dict csv.DictReader builds from fieldnames and
\* the fields of one row: the last column of that name wins, a column past
\* the end of a short row holds None, an absent name gives the default ""
DictGet(fieldnames, row, key) ==
  LET cols == {i \in DOMAIN fieldnames : fieldnames[i] = key}
  IN  IF cols = {} THEN <<>>
      ELSE LET p == CHOOSE i \in cols : \A j \in cols : j <= i
           IN  IF p <= Len(row) THEN row[p] ELSE None

Required == <<<<"S","t","a","r","t">>, <<"E","n","d">>, <<"N","a","m","e">>, <<"L","o","c","a","t","i","o","n">>>>

\* lines 80-83 raise AttributeError on None.strip()
RowRaises(fieldnames, row) ==
  \E f \in DOMAIN Required : DictGet(fieldnames, row, Required[f]) = None

RowEvent(fieldnames, row) ==
  [start |-> Strip(DictGet(fieldnames, row, Required[1])),
   end   |-> Strip(DictGet(fieldnames, row, Required[2])),
   name  |-> Strip(DictGet(fieldnames, row, Required[3])),
   stage |-> Strip(DictGet(fieldnames, row, Required[4]))]

\* line 84
RowValid(ev) ==
  ~(ev.start = <<>> \/ ev.end = <<>> \/ ev.name = <<>> \/ ev.stage = <<>>)

RECURSIVE ReadRows(_, _, _, _)
\* lines 79-86: the loop over the reader, from line i of data_lines on
ReadRows(fieldnames, data_lines, i, acc) ==
  IF i > Len(data_lines) THEN [raised |-> FALSE, events |-> acc]
  ELSE LET row == CsvRow(data_lines[i])
       IN  IF row = <<>>
           THEN ReadRows(fieldnames, data_lines, i + 1, acc)
           ELSE IF RowRaises(fieldnames, row)
           THEN [raised |-> TRUE, events |-> <<>>]
           ELSE LET ev == RowEvent(fieldnames, row)
                IN  ReadRows(fieldnames, data_lines, i + 1,
                             IF RowValid(ev) THEN Append(acc, ev) ELSE acc)

\* load_csv: what it returns or raises, and what it prints on stderr
load_csv(raw_lines) ==
  LET processed == Processed(raw_lines)
      header_idx == HeaderIdx(processed)
  IN  IF header_idx = 0
      THEN [raised |-> FALSE, events |-> <<>>,
            err |-> <<"Error: CSV header row not found.">>]
      ELSE LET data_lines == SubSeq(processed, header_idx, Len(processed))
               r == ReadRows(CsvRow(data_lines[1]), data_lines, 2, <<>>)
           IN  [raised |-> r.raised, events |-> r.events, err |-> <<>>]

(***************************************************************************)
(* group_events                                                            *)
(***************************************************************************)
\* the alternatives of split_regex (line 113), folded to lower case
SPLIT_ALTERNATIVES ==
  <<<<"b","2","b">>, <<"b","3","b">>, <<"f","2","f">>, <<"v","s">>, <<"x">>, <<"x">>, <<"v","s">>, <<" ","&"," ">>>>

\* the end of the first alternative that matches at k, 0 if none does
\* (the first character is compared first, the rest only when it agrees)
AlternativeEnd(s, k) ==
  LET hit == {a \in DOMAIN SPLIT_ALTERNATIVES :
                /\ k + Len(SPLIT_ALTERNATIVES[a]) - 1 <= Len(s)
                /\ Lower(s[k]) = SPLIT_ALTERNATIVES[a][1]
                /\ LowerStr(SubSeq(s, k, k + Len(SPLIT_ALTERNATIVES[a]) - 1))
                     = SPLIT_ALTERNATIVES[a]}
  IN  IF hit = {} THEN 0
      ELSE k - 1 + Len(SPLIT_ALTERNATIVES[CHOOSE a \in hit :
                                            \A b \in hit : a <= b])

RECURSIVE Backtrack(_, _, _)
\* the greedy leading \s* took s[i..k-1]; it gives back one blank at a time
Backtrack(s, i, k) ==
  IF k < i THEN 0
  ELSE LET e == AlternativeEnd(s, k)
       IN  IF e # 0 THEN e ELSE Backtrack(s, i, k - 1)

\* the end of the match of split_regex that starts at i, 0 if none
SeparatorEnd(s, i) ==
  LET e == Backtrack(s, i, FirstNonSpace(s, i))
  IN  IF e = 0 THEN 0 ELSE FirstNonSpace(s, e + 1) - 1

RECURSIVE RegexSplit(_, _, _)
\* split_regex.split(s): the piece begun at from, the search being at i
RegexSplit(s, from, i) ==
  IF i > Len(s) THEN <<SubSeq(s, from, Len(s))>>
  ELSE LET e == SeparatorEnd(s, i)
       IN  IF e = 0 THEN RegexSplit(s, from, i + 1)
           ELSE <<SubSeq(s, from, i - 1)>> \o RegexSplit(s, e + 1, e + 1)

\* line 109
IsLiteralB2B(combined_name) ==
  LowerStr(Strip(combined_name)) = <<"b","2","b","2","b","2","b","2","b">>

\* mutant of KeepPiece: the comprehension without its condition
KeepPiece_All(n) == TRUE

\* line 114: the condition of the comprehension
KeepPiece(n) == clean_name(n) # <<>>

\* lines 109-114
split_artists(combined_name) ==
  IF IsLiteralB2B(combined_name) THEN <<clean_name(combined_name)>>
  ELSE LET pieces == RegexSplit(combined_name, 1, 1)
           kept == SelectSeq(pieces, KeepPiece)
       IN  [k \in 1..Len(kept) |-> clean_name(kept[k])]

\* mutant of SplitEntry: the mode detected in the name, not the fixed "B2B"
SplitEntry_DetectedMode(n, start, end, stage, combined_name) ==
  [name |-> n,
   time |-> parse_datetime(start),
   end_time |-> parse_datetime(end),
   stage |-> stage,
   performance_mode |-> detect_mode(combined_name),
   custom_name |-> clean_name(combined_name)]

\* lines 119-126
SplitEntry(n, start, end, stage, combined_name) ==
  [name |-> n,
   time |-> parse_datetime(start),
   end_time |-> parse_datetime(end),
   stage |-> stage,
   performance_mode |-> <<"B","2","B">>,
   custom_name |-> clean_name(combined_name)]

\* lines 128-135
SingleEntry(start, end, stage, combined_name) ==
  [name |-> clean_name(combined_name),
   time |-> parse_datetime(start),
   end_time |-> parse_datetime(end),
   stage |-> stage,
   performance_mode |-> detect_mode(combined_name)]

\* line 117
IsSplit(artists) == Len(artists) > 1

\* lines 107-135: the entries appended for one name of a slot.  src (the
\* index of the row in events) and piece (the index among the entries of
\* that row) are history fields: no code reads them, to_json drops them
NameEntries(start, end, stage, combined_name, row) ==
  LET artists == split_artists(combined_name)
  IN  IF IsSplit(artists)
      THEN [k \in 1..Len(artists) |->
              SplitEntry(artists[k], start, end, stage, combined_name)
                @@ [src |-> row, piece |-> k]]
      ELSE <<SingleEntry(start, end, stage, combined_name)
               @@ [src |-> row, piece |-> 1]>>

SlotKey(ev) == <<ev.start, ev.end, ev.stage>>

\* mutant of GroupAppend: a name already in the slot is not added again
GroupAppend_Dedup(grouped, ev, row) ==
  LET at == {g \in DOMAIN grouped : grouped[g].key = SlotKey(ev)}
  IN  IF at = {}
      THEN Append(grouped, [key |-> SlotKey(ev), names |-> <<ev.name>>,
                            rows |-> <<row>>])
      ELSE LET g == CHOOSE x \in at : TRUE
           IN  IF ev.name \in Range(grouped[g].names) THEN grouped
               ELSE [grouped EXCEPT ![g].names = Append(@, ev.name),
                                    ![g].rows = Append(@, row)]

\* line 98: grouped[key].append(ev["name"]); a dict keeps insertion order.
\* rows is the history of the row each name came from
GroupAppend(grouped, ev, row) ==
  LET at == {g \in DOMAIN grouped : grouped[g].key = SlotKey(ev)}
  IN  IF at = {}
      THEN Append(grouped, [key |-> SlotKey(ev), names |-> <<ev.name>>,
                            rows |-> <<row>>])
      ELSE LET g == CHOOSE x \in at : TRUE
           IN  [grouped EXCEPT ![g].names = Append(@, ev.name),
                               ![g].rows = Append(@, row)]

RECURSIVE Grouped(_, _, _)
\* lines 95-98
Grouped(evs, i, grouped) ==
  IF i > Len(evs) THEN grouped
  ELSE Grouped(evs, i + 1, GroupAppend(grouped, evs[i], i))

RECURSIVE SlotEntries(_, _)
\* lines 107-135 for one slot, from its i-th name on
SlotEntries(slot, i) ==
  IF i > Len(slot.names) THEN <<>>
  ELSE NameEntries(slot.key[1], slot.key[2], slot.key[3], slot.names[i],
                   slot.rows[i])
       \o SlotEntries(slot, i + 1)

RECURSIVE MergedFrom(_, _)
\* lines 104-136, from the g-th slot on
MergedFrom(grouped, g) ==
  IF g > Len(grouped) THEN <<>>
  ELSE SlotEntries(grouped[g], 1) \o MergedFrom(grouped, g + 1)

group_events(evs) == MergedFrom(Grouped(evs, 1, <<>>), 1)

RECURSIVE SlotDebug(_, _)
SlotDebug(slot, i) ==
  IF i > Len(slot.names) THEN <<>>
  ELSE <<[kind |-> "DEBUG SPLIT",
          data |-> <<slot.names[i], split_artists(slot.names[i])>>]>>
       \o SlotDebug(slot, i + 1)

RECURSIVE DebugFrom(_, _)
\* line 116: what group_events prints on stdout
DebugFrom(grouped, g) ==
  IF g > Len(grouped) THEN <<>>
  ELSE SlotDebug(grouped[g], 1) \o DebugFrom(grouped, g + 1)

(***************************************************************************)
(* main: the sort of line 180, to_json                                     *)
(***************************************************************************)
\* mutant of KeyLess: the key is the time alone
KeyLess_TimeOnly(a, b) == StrCmp(a.time, b.time, 1) < 0

\* (a.time, a.stage) < (b.time, b.stage) as Python compares tuples of str
KeyLess(a, b) ==
  LET c == StrCmp(a.time, b.time, 1)
  IN  c < 0 \/ (c = 0 /\ StrCmp(a.stage, b.stage, 1) < 0)

\* mutant of Insert: e is put before the entries of equal key
Insert_BeforeEqual(sorted, e) ==
  LET p == Cardinality({i \in DOMAIN sorted : KeyLess(sorted[i], e)})
  IN  SubSeq(sorted, 1, p) \o <<e>> \o SubSeq(sorted, p + 1, Len(sorted))

\* e is put behind every entry whose key is not greater: the sort is stable
Insert(sorted, e) ==
  LET p == Cardinality({i \in DOMAIN sorted : ~KeyLess(e, sorted[i])})
  IN  SubSeq(sorted, 1, p) \o <<e>> \o SubSeq(sorted, p + 1, Len(sorted))

RECURSIVE SortFrom(_, _, _)
SortFrom(entries, i, sorted) ==
  IF i > Len(entries) THEN sorted
  ELSE SortFrom(entries, i + 1, Insert(sorted, entries[i]))

\* list.sort(key=...) of line 180
Sort(entries) == SortFrom(entries, 1, <<>>)

\* lines 146-156
JsonEntry(e) ==
  LET entry == [artist_id |-> <<>>,
                name |-> e.name,
                time |-> e.time,
                end_time |-> e.end_time,
                soundcloud |-> <<>>,
                stage |-> e.stage,
                performance_mode |-> e.performance_mode]
  IN  IF "custom_name" \in DOMAIN e
      THEN entry @@ [custom_name |-> e.custom_name]
      ELSE entry

\* lines 144-157
OutputList(entries) == [i \in 1..Len(entries) |-> JsonEntry(entries[i])]

\* mutant of NotEvents: main without its check
NotEvents_Never(evs) == FALSE

\* line 176: not events
NotEvents(evs) == evs = <<>>

(***************************************************************************)
(* The inputs                                                              *)
(***************************************************************************)
\* the most tokens a generated raw name is made of
MaxTokens == 3

\* the most data lines of a generated timetable
MaxRows == 3

Tokens ==
  {<<"a">>, <<" ">>, <<"x">>, <<"B","2","B">>, <<"&">>, <<"A","/","V">>, <<"(","L","i","v","e",")">>, <<"b","2","B","2","b","2","b","2","B">>}

RECURSIVE TokenStrings(_)
TokenStrings(n) ==
  IF n = 0 THEN {<<>>}
  ELSE LET shorter == TokenStrings(n - 1)
       IN  shorter \cup {p \o t : p \in shorter, t \in Tokens}

ExampleNames ==
  {<<"S","o","l","o"," ","S","e","t"," ","V","S">>, <<"A","r","t","i","s","t"," ","A"," ","B","2","B"," ","A","r","t","i","s","t"," ","B">>, <<"A","r","t","i","s","t"," ","A"," ","&"," ","A","r","t","i","s","t"," ","B">>,
   <<"D","J"," ","T","e","s","t"," ","A","/","V">>, <<"D","J"," ","T","e","s","t"," ","(","L","i","v","e",")">>, <<"a","\t","(","l","i","v","e",")">>, <<"a"," ","B","3","B"," ","a">>,
   <<"a"," ","F","2","F">>, <<"a"," ","v","s"," ","a">>, <<"a"," ","V","S"," ","a">>, <<"V","S">>, <<"a"," ","b","2","b"," ","a">>, <<"b","2","b">>,
   <<"a","B","2","B"," ","V","S">>, <<"X">>, <<"x"," ","B","2","B">>, <<"B","2","B","2","B","2","B","2","B">>, <<"A","l","e","x">>}

Names == TokenStrings(MaxTokens) \cup ExampleNames

HeaderLine == <<"S","t","a","r","t",",","E","n","d",",","N","a","m","e",",","L","o","c","a","t","i","o","n","\n">>

CsvLine(start, end, name, stage) ==
  start \o <<",">> \o end \o <<",">> \o name \o <<",">> \o stage \o <<"\n">>

\* one-row timetables, one for every generated raw name
NameFiles ==
  {<<HeaderLine,
     CsvLine(<<"2","0","2","4","/","0","7","/","1","3"," ","1","8",":","0","0">>, <<"2","0","2","4","/","0","7","/","1","3"," ","1","9",":","0","0">>, name, <<"M","a","i","n"," ","S","t","a","g","e">>)>> :
     name \in Names}

ExampleRow ==
  <<"2","0","2","4","/","0","7","/","1","3"," ","1","8",":","0","0",",","2","0","2","4","/","0","7","/","1","3"," ","1","9",":","0","0",",","D","J"," ","X"," ","B","2","B"," ","D","J"," ","Y",",","M","a","i","n"," ","S","t","a","g","e","\n">>

RowLines ==
  {ExampleRow,
   <<"2","0","2","4","/","0","7","/","1","3"," ","1","8",":","0","0",",","2","0","2","4","/","0","7","/","1","3"," ","2","0",":","0","0",",","B","o","b",",","M","a","i","n"," ","S","t","a","g","e","\n">>,
   <<"2","0","2","4","/","0","7","/","1","2"," ","2","3",":","0","0",",","2","0","2","4","/","0","7","/","1","3"," ","0","1",":","0","0",",","A","n","n",",","M","a","i","n"," ","S","t","a","g","e","\n">>,
   <<"b","a","d",",","2","0","2","4","/","0","7","/","1","3"," ","1","9",":","0","0",",","C","y"," ","V","S",",","T","e","n","t","\n">>,
   <<"t","b","d"," ",","," ","2","0","2","4","/","0","7","/","1","3"," ","1","9",":","0","0"," ",","," ","D","e","e"," ","&"," ","E","v","e"," ","(","l","i","v","e",")"," ",",","T","e","n","t","\n">>,
   <<"2","0","2","4","/","0","7","/","1","3"," ","1","8",":","0","0",",",",","F","l","o",",","T","e","n","t","\n">>,
   <<"2","0","2","4","/","0","7","/","1","3"," ","1","8",":","0","0",",","2","0","2","4","/","0","7","/","1","3"," ","1","9",":","0","0","\n">>}

RECURSIVE RowSeqs(_)
RowSeqs(n) ==
  IF n = 0 THEN {<<>>}
  ELSE LET shorter == RowSeqs(n - 1)
       IN  shorter \cup {p \o <<r>> : p \in shorter, r \in RowLines}

\* what precedes the data lines: notes and a header line, a commented one
\* with other columns included
Heads ==
  {<<HeaderLine>>,
   <<<<"/","/"," ","s","o","m","e"," ","n","o","t","e","\n">>, HeaderLine>>,
   <<<<" "," ","/","/"," ","S","t","a","r","t",",","L","o","c","a","t","i","o","n",",","N","a","m","e",",","E","n","d",",","N","o","t","e","\n">>, <<"\n">>>>}

\* a header line whose column names keep their blanks, and no header line
OddHeads ==
  {<<<<" ","S","t","a","r","t",","," ","E","n","d",",","N","a","m","e",",","L","o","c","a","t","i","o","n","\n">>>>,
   <<<<"/","/"," ","s","o","m","e"," ","n","o","t","e","\n">>>>}

TableFiles ==
  {h \o rows : h \in Heads, rows \in RowSeqs(MaxRows)}
    \cup {h \o <<r>> : h \in OddHeads, r \in RowLines}

Files == NameFiles \cup TableFiles

\* args.output: absent, or a path
OutputPaths == {<<>>, <<"o","u","t",".","j","s","o","n">>}

(***************************************************************************)
(* main                                                                    *)
(***************************************************************************)
Init ==
  /\ inputFile \in Files
  /\ pc = "load_csv"
  /\ events = <<>>
  /\ merged = <<>>
  /\ output = <<>>
  /\ stdout = <<>>
  /\ stderr = <<>>
  /\ written = <<>>
  /\ exitStatus = -1

\* line 175, load_csv returns
LoadCsvReturns ==
  /\ pc = "load_csv"
  /\ LET r == load_csv(inputFile)
     IN  /\ ~r.raised
         /\ events' = r.events
         /\ stderr' = stderr \o r.err
  /\ pc' = "loaded"
  /\ UNCHANGED <<inputFile, merged, output, stdout, written, exitStatus>>

\* line 175, load_csv raises: nothing catches the AttributeError, the
\* interpreter prints the traceback and exits with status 1
LoadCsvRaises ==
  /\ pc = "load_csv"
  /\ load_csv(inputFile).raised
  /\ stderr' = Append(stderr, "AttributeError: 'NoneType' object has no attribute 'strip'")
  /\ exitStatus' = 1
  /\ pc' = "done"
  /\ UNCHANGED <<inputFile, events, merged, output, stdout, written>>

\* lines 176-178
ExitNoEvents ==
  /\ pc = "loaded"
  /\ NotEvents(events)
  /\ stderr' = Append(stderr, "No valid events found. Check CSV formatting.")
  /\ exitStatus' = 1
  /\ pc' = "done"
  /\ UNCHANGED <<inputFile, events, merged, output, stdout, written>>

\* line 179
GroupEvents ==
  /\ pc = "loaded"
  /\ ~NotEvents(events)
  /\ merged' = group_events(events)
  /\ stdout' = stdout \o DebugFrom(Grouped(events, 1, <<>>), 1)
  /\ pc' = "grouped"
  /\ UNCHANGED <<inputFile, events, output, stderr, written, exitStatus>>

\* line 180
SortMerged ==
  /\ pc = "grouped"
  /\ merged' = Sort(merged)
  /\ pc' = "sorted"
  /\ UNCHANGED <<inputFile, events, output, stdout, stderr, written, exitStatus>>

\* line 181 and the normal end of the process
ToJson ==
  /\ pc = "sorted"
  /\ \E output_path \in OutputPaths :
       /\ output' = OutputList(merged)
       /\ IF output_path # <<>>
          THEN /\ written' = Append(written, [path |-> output_path,
                                              data |-> OutputList(merged)])
               /\ stdout' = Append(stdout, [kind |-> "Saved JSON output to",
                                            data |-> output_path])
          ELSE /\ written' = written
               /\ stdout' = Append(stdout, [kind |-> "JSON",
                                            data |-> OutputList(merged)])
  /\ exitStatus' = 0
  /\ pc' = "done"
  /\ UNCHANGED <<inputFile, events, merged, stderr>>

Next ==
  \/ LoadCsvReturns
  \/ LoadCsvRaises
  \/ ExitNoEvents
  \/ GroupEvents
  \/ SortMerged
  \/ ToJson

Spec == Init /\ [][Next]_vars

(***************************************************************************)
(* Vocabulary of the properties                                            *)
(***************************************************************************)
\* group_events has run and main goes on to, or has reached, its end
Emitted == pc \in {"grouped", "sorted"} \/ (pc = "done" /\ exitStatus = 0)

\* main has sorted merged
Sorted == pc = "sorted" \/ (pc = "done" /\ exitStatus = 0)

\* main has ended normally and the JSON list is out
Finished == pc = "done" /\ exitStatus = 0

\* the entries of seq that row r of events produced, in the order of seq
FromRow(seq, r) == SelectSeq(seq, LAMBDA e : e.src = r)

HasCustomName(e) == "custom_name" \in DOMAIN e

\* a <= b in the lexicographic order of code points, stated on positions
StrLeq(a, b) ==
  \E k \in 0..Len(a) :
    /\ k <= Len(b)
    /\ SubSeq(a, 1, k) = SubSeq(b, 1, k)
    /\ \/ k = Len(a)
       \/ k < Len(b) /\ Ord[a[k + 1]] < Ord[b[k + 1]]

\* (a.time, a.stage) <= (b.time, b.stage)
KeyLeq(a, b) ==
  IF a.time = b.time THEN StrLeq(a.stage, b.stage) ELSE StrLeq(a.time, b.time)

SameKey(a, b) == a.time = b.time /\ a.stage = b.stage

\* the first row of events with the slot of row r
FirstRowOfSlot(r) ==
  CHOOSE q \in DOMAIN events :
    /\ SlotKey(events[q]) = SlotKey(events[r])
    /\ \A p \in DOMAIN events :
         SlotKey(events[p]) = SlotKey(events[r]) => q <= p

\* a was emitted by group_events before b
EmittedBefore(a, b) ==
  LET fa == FirstRowOfSlot(a.src)
      fb == FirstRowOfSlot(b.src)
  IN  \/ fa < fb
      \/ fa = fb /\ a.src < b.src
      \/ fa = fb /\ a.src = b.src /\ a.piece < b.piece

ModeTokens == {<<"B","2","B">>, <<"B","3","B">>, <<"F","2","F">>, <<"V","S">>}

\* token t stands in s at i with no word character on either side
ModeOccursAt(s, i, t) ==
  /\ i + Len(t) - 1 <= Len(s)
  /\ SubSeq(s, i, i + Len(t) - 1) = t
  /\ (i = 1 \/ s[i - 1] \notin WordChars)
  /\ (i + Len(t) - 1 = Len(s) \/ s[i + Len(t)] \notin WordChars)

\* m is the first such occurrence in s, or "" when there is none
IsFirstMode(s, m) ==
  IF \E i \in DOMAIN s : \E t \in ModeTokens : ModeOccursAt(s, i, t)
  THEN \E i \in DOMAIN s :
         /\ m \in ModeTokens
         /\ ModeOccursAt(s, i, m)
         /\ \A j \in 1..(i - 1) : \A t \in ModeTokens : ~ModeOccursAt(s, j, t)
  ELSE m = <<>>

\* the rows the data lines hold when an absent field counts as an empty one
FieldOrEmpty(fieldnames, row, key) ==
  IF DictGet(fieldnames, row, key) = None THEN <<>>
  ELSE DictGet(fieldnames, row, key)

LenientEvent(fieldnames, row) ==
  [start |-> Strip(FieldOrEmpty(fieldnames, row, Required[1])),
   end   |-> Strip(FieldOrEmpty(fieldnames, row, Required[2])),
   name  |-> Strip(FieldOrEmpty(fieldnames, row, Required[3])),
   stage |-> Strip(FieldOrEmpty(fieldnames, row, Required[4]))]

RECURSIVE LenientRows(_, _, _)
LenientRows(fieldnames, data_lines, i) ==
  IF i > Len(data_lines) THEN <<>>
  ELSE LET row == CsvRow(data_lines[i])
           ev == LenientEvent(fieldnames, row)
       IN  (IF row # <<>> /\ RowValid(ev) THEN <<ev>> ELSE <<>>)
           \o LenientRows(fieldnames, data_lines, i + 1)

\* every complete row of the file, in order
CompleteRows(raw_lines) ==
  LET processed == Processed(raw_lines)
      header_idx == HeaderIdx(processed)
  IN  IF header_idx = 0 THEN <<>>
      ELSE LET data_lines == SubSeq(processed, header_idx, Len(processed))
           IN  LenientRows(CsvRow(data_lines[1]), data_lines, 2)

ExampleFile == <<<<"/","/"," ","s","o","m","e"," ","n","o","t","e","\n">>, HeaderLine, ExampleRow>>

(***************************************************************************)
(* Properties                                                              *)
(***************************************************************************)
\* C1: for the file "// some note", the header line and the one row
\* "2024/07/13 18:00,2024/07/13 19:00,DJ X B2B DJ Y,Main Stage", the output
\* is exactly two records, named "DJ X" and "DJ Y", each with time
\* "2024-07-13T18:00", stage "Main Stage", performance_mode "B2B" and
\* custom_name "DJ X B2B DJ Y".
C1_EndToEndExample ==
  (inputFile = ExampleFile /\ pc = "done") =>
    /\ exitStatus = 0
    /\ Len(output) = 2
    /\ output[1].name = <<"D","J"," ","X">>
    /\ output[2].name = <<"D","J"," ","Y">>
    /\ \A i \in DOMAIN output :
         /\ output[i].time = <<"2","0","2","4","-","0","7","-","1","3","T","1","8",":","0","0">>
         /\ output[i].stage = <<"M","a","i","n"," ","S","t","a","g","e">>
         /\ output[i].performance_mode = <<"B","2","B">>
         /\ HasCustomName(output[i])
         /\ output[i].custom_name = <<"D","J"," ","X"," ","B","2","B"," ","D","J"," ","Y">>

\* C2: a raw name that splits into N > 1 non-empty cleaned pieces gives
\* exactly N entries, one per piece from left to right, all with the time,
\* end_time and stage of the row, performance_mode "B2B" and custom_name the
\* cleaned unsplit name; and an entry or output record has a custom_name
\* exactly when it came from such a split.
C2_SplitEmitsOnePerPiece ==
  Emitted =>
    \A split \in {[r \in DOMAIN events |-> split_artists(events[r].name)]} :
      /\ \A r \in DOMAIN events :
           LET ev == events[r]
               es == FromRow(merged, r)
           IN  Len(split[r]) > 1 =>
                 /\ Len(es) = Len(split[r])
                 /\ \A k \in DOMAIN es :
                      /\ es[k].name = split[r][k]
                      /\ es[k].time = parse_datetime(ev.start)
                      /\ es[k].end_time = parse_datetime(ev.end)
                      /\ es[k].stage = ev.stage
                      /\ es[k].performance_mode = <<"B","2","B">>
                      /\ HasCustomName(es[k])
                      /\ es[k].custom_name = clean_name(ev.name)
      /\ \A i \in DOMAIN merged :
           HasCustomName(merged[i]) <=> Len(split[merged[i].src]) > 1
      /\ Finished =>
           /\ Len(output) = Len(merged)
           /\ \A i \in DOMAIN output :
                /\ HasCustomName(output[i]) <=> Len(split[merged[i].src]) > 1
                /\ HasCustomName(output[i]) =>
                     output[i].custom_name = merged[i].custom_name
                /\ output[i].name = merged[i].name
                /\ output[i].performance_mode = merged[i].performance_mode

C2_Witness ==
  /\ Finished
  /\ Len(events) = 1
  /\ events[1].name = <<"A","r","t","i","s","t"," ","A"," ","&"," ","A","r","t","i","s","t"," ","B">>
  /\ Len(output) = 2
  /\ output[1].name = <<"A","r","t","i","s","t"," ","A">>
  /\ output[2].name = <<"A","r","t","i","s","t"," ","B">>
  /\ output[1].performance_mode = <<"B","2","B">>
  /\ output[2].custom_name = <<"A","r","t","i","s","t"," ","A"," ","&"," ","A","r","t","i","s","t"," ","B">>

\* C3: when load_csv yields no valid row, main reports on stderr, ends with
\* a non-zero status and never groups, sorts or writes JSON; when no line is
\* a header, load_csv reports the header error and returns no event.
C3_NoValidRowsIsAnError ==
  /\ pc \in {"grouped", "sorted"} => events # <<>>
  /\ (pc = "done" /\ events = <<>>) =>
       /\ exitStatus # 0
       /\ stderr # <<>>
       /\ merged = <<>>
       /\ output = <<>>
       /\ stdout = <<>>
       /\ written = <<>>
  /\ (pc # "load_csv" /\ HeaderIdx(Processed(inputFile)) = 0) =>
       /\ events = <<>>
       /\ stderr # <<>>
       /\ stderr[1] = "Error: CSV header row not found."

C3_Witness ==
  /\ pc = "done"
  /\ HeaderIdx(Processed(inputFile)) # 0
  /\ HeaderIdx(Processed(inputFile)) < Len(inputFile)
  /\ events = <<>>
  /\ exitStatus = 1
  /\ stderr = <<"No valid events found. Check CSV formatting.">>
  /\ stdout = <<>>

\* C4: a data row with one of Start, End, Name, Location absent or empty
\* after trimming is dropped without an error, also when the row has fewer
\* fields than the header has columns, and load_csv still returns every
\* complete row of the file.
C4_MalformedRowsNeverFatal ==
  pc # "load_csv" =>
    /\ \A m \in DOMAIN stderr :
         stderr[m] # "AttributeError: 'NoneType' object has no attribute 'strip'"
    /\ events = CompleteRows(inputFile)

\* C5: the output is ordered by (time, stage) in the lexicographic order of
\* code points; records with an empty time come before all others.
C5_OutputSorted ==
  Finished =>
    \A i, j \in DOMAIN output :
      i < j =>
        /\ KeyLeq(output[i], output[j])
        /\ output[j].time = <<>> => output[i].time = <<>>

C5_Witness ==
  /\ Finished
  /\ Len(events) >= 2
  /\ parse_datetime(events[1].start) # <<>>
  /\ parse_datetime(events[2].start) = <<>>
  /\ output[1].time = <<>>
  /\ output[Len(output)].time # <<>>

\* C6, as claimed: two output records of equal (time, stage) stand in the
\* order of the CSV rows they came from.
C6_StableInRowOrder ==
  Sorted =>
    \A i, j \in DOMAIN merged :
      (i < j /\ SameKey(merged[i], merged[j])) => merged[i].src <= merged[j].src

\* C6, amended: two output records of equal (time, stage) stand in the order
\* in which group_events emitted them: by the first row of their slot, then
\* by row, then by piece; so in row order when both come from one slot.
C6_StableInEmissionOrder ==
  /\ Sorted =>
       \A i, j \in DOMAIN merged :
         (i < j /\ SameKey(merged[i], merged[j])) =>
           /\ EmittedBefore(merged[i], merged[j])
           /\ SlotKey(events[merged[i].src]) = SlotKey(events[merged[j].src])
                => merged[i].src <= merged[j].src
  /\ Finished =>
       /\ Len(output) = Len(merged)
       /\ \A i \in DOMAIN output :
            /\ output[i].name = merged[i].name
            /\ output[i].time = merged[i].time
            /\ output[i].end_time = merged[i].end_time
            /\ output[i].stage = merged[i].stage

C6_Witness ==
  /\ Finished
  /\ \E i, j \in DOMAIN merged :
       /\ i < j
       /\ SameKey(merged[i], merged[j])
       /\ merged[i].src > merged[j].src
       /\ events[merged[i].src].start # events[merged[j].src].start
       /\ output[i].name = <<"C","y"," ","V","S">>
       /\ output[j].name = <<"D","e","e">>

\* C7: every entry group_events emits, and every output record, has a
\* non-empty name, also for a name made of separators or suffix markers only.
C7_NamesNonEmpty ==
  /\ \A i \in DOMAIN merged : merged[i].name # <<>>
  /\ \A i \in DOMAIN output : output[i].name # <<>>

C7_Witness ==
  /\ Finished
  /\ Len(events) = 1
  /\ events[1].name = <<"x"," ","B","2","B">>
  /\ split_artists(events[1].name) = <<>>
  /\ Len(output) = 1
  /\ output[1].name = <<"x"," ","B","2","B">>

\* C8: a raw name that does not split into more than one non-empty piece
\* gives exactly one entry: its name is the cleaned whole name, it has no
\* custom_name, and its performance_mode is the first case-sensitive,
\* word-delimited B2B, B3B, F2F or VS of the raw name, or "" without one;
\* "Solo Set VS" keeps its name with mode "VS", and b2b2b2b2b in any letter
\* case has mode "".
C8_SingleArtistBranch ==
  Emitted =>
    \A r \in DOMAIN events :
      LET ev == events[r]
          es == FromRow(merged, r)
      IN  Len(split_artists(ev.name)) <= 1 =>
            /\ Len(es) = 1
            /\ es[1].name = clean_name(ev.name)
            /\ ~HasCustomName(es[1])
            /\ IsFirstMode(ev.name, es[1].performance_mode)
            /\ LowerStr(ev.name) = <<"b","2","b","2","b","2","b","2","b">> =>
                 es[1].performance_mode = <<>> /\ es[1].name = ev.name
            /\ ev.name = <<"S","o","l","o"," ","S","e","t"," ","V","S">> =>
                 es[1].performance_mode = <<"V","S">> /\ es[1].name = ev.name

C8_Witness ==
  /\ Finished
  /\ Len(events) = 1
  /\ events[1].name = <<"S","o","l","o"," ","S","e","t"," ","V","S">>
  /\ Len(output) = 1
  /\ output[1].name = <<"S","o","l","o"," ","S","e","t"," ","V","S">>
  /\ output[1].performance_mode = <<"V","S">>
  /\ ~HasCustomName(output[1])

\* C9: when two or more rows share the raw (start, end, stage) key, every
\* entry emitted for that slot has performance_mode "B2B".
C9_SameSlotCombinedAsB2B ==
  Emitted =>
    \A r, q \in DOMAIN events :
      (r # q /\ SlotKey(events[r]) = SlotKey(events[q])) =>
        \A i \in DOMAIN merged :
          merged[i].src = r => merged[i].performance_mode = <<"B","2","B">>

\* C10: every valid row gives at least one entry with the row's stage and
\* the normalized start and end of the row, so there are at least as many
\* entries as rows, duplicate rows included, and every entry comes from one
\* row.
C10_NoValidRowLost ==
  /\ Emitted =>
       /\ \A r \in DOMAIN events :
            \E i \in DOMAIN merged :
              /\ merged[i].src = r
              /\ merged[i].stage = events[r].stage
              /\ merged[i].time = parse_datetime(events[r].start)
              /\ merged[i].end_time = parse_datetime(events[r].end)
       /\ \A i \in DOMAIN merged : merged[i].src \in DOMAIN events
       /\ Len(merged) >= Len(events)
  /\ Finished => Len(output) = Len(merged)

C10_Witness ==
  /\ Finished
  /\ Len(events) = 3
  /\ events[1] = events[2]
  /\ events[1].name = <<"B","o","b">>
  /\ Len(FromRow(merged, 1)) = 1
  /\ Len(FromRow(merged, 2)) = 1
  /\ Len(output) >= 3
====
